---------------------------- MODULE Spec2Model ----------------------------
(* Seraph ID SDK: the Root-of-Trust client (rot.ts), the Issuer contract   *)
(* client (issuer-contract.ts), their shared base (contract-base.ts) and   *)
(* the ledger they talk to.                                                *)
(*                                                                         *)
(* JavaScript values are written as strings: the booleans are "true" and   *)
(* "false", an absent value is "undefined".  A string of the program that  *)
(* the code takes apart (a DID) is a sequence of one-character strings.    *)
EXTENDS Integers, Sequences, FiniteSets, TLC

VARIABLES
    trustReg,       \* RoT contract storage: <<issuer param, schema name>> -> "true" | "false"
    claimReg,       \* Issuer contract storage: claim id -> "Nonexistent" | "Valid" | "Revoked"
    schemaReg,      \* Issuer contract storage: schema name -> schema definition
    mempool,        \* transactions accepted by the node and not yet in a block
    pubKeys,        \* Issuer contract storage: the issuer's public keys
    lastConfirmed,  \* the transaction of the trust registry, schema registry or key list confirmed last
    last,           \* the client call that completed last, with its outcome
    seen,           \* per claim id, what isValidClaim has answered so far
    issuing,        \* per claim id, the caller's claim object and how far issueClaim has got with it
    keysBefore      \* the key added by recovery last and what getIssuerPublicKeys gave before it was added

vars == <<trustReg, claimReg, schemaReg, pubKeys, mempool, lastConfirmed, last, seen,
          issuing, keysBefore>>

-----------------------------------------------------------------------------
(* Bounds of the model *)

MaxPending == 1

-----------------------------------------------------------------------------
(* Strings of the program *)

DIDMethodPrefix == <<"d","i","d",":","n","e","o","i","d",":">>

NetTest == <<"t","e","s","t">>
NetMain == <<"m","a","i","n">>
NetPriv == <<"p","r","i","v">>

DIDNetwork == {NetTest, NetMain, NetPriv}

RotScriptHash == <<"0","x","r","0">>
IssuerScriptHash == <<"0","x","a","1">>
OtherIssuerScriptHash == <<"0","x","b","2">>

RootOfTrustOperation ==
    [Name |-> "name", IsTrusted |-> "isTrusted",
     RegisterIssuer |-> "registerIssuer", DeactivateIssuer |-> "deactivateIssuer"]

IssuerOperation ==
    [Name |-> "name", GetSchemaDetails |-> "getSchemaDetails",
     RegisterSchema |-> "registerSchema", InjectClaim |-> "injectClaim",
     RevokeClaim |-> "revokeClaim", IsValidClaim |-> "isValidClaim",
     GetAdminsList |-> "getAdminList", AddAdmin |-> "addAdmin",
     RemoveAdmin |-> "removeAdmin"]

\* The operations of the contract's key recovery, by the names the client
\* refers to them with.
IssuerRecoveryOperation ==
    [GetPublicKeys |-> "GetPublicKeys", SetRecovery |-> "SetRecovery",
     AddKeyByRecovery |-> "AddKeyByRecovery",
     RemoveKeyByRecovery |-> "RemoveKeyByRecovery"]

\* `did:neoid:${this.network}:${this.scriptHash}`
getIssuerDID(network, scriptHash) == DIDMethodPrefix \o network \o <<":">> \o scriptHash

getDID_noNetwork(network, scriptHash) == DIDMethodPrefix \o scriptHash

\* rot.ts getDID: `did:neoid:${this.network}:${this.scriptHash}`
getDID(network, scriptHash) == DIDMethodPrefix \o network \o <<":">> \o scriptHash

\* The script hashes the clients are constructed with.
ScriptHashes == {RotScriptHash, IssuerScriptHash, OtherIssuerScriptHash}

\* The issuer DIDs the Root of Trust is asked about.
IssuerDIDs ==
    {getIssuerDID(NetPriv, IssuerScriptHash), getIssuerDID(NetPriv, OtherIssuerScriptHash)}

SchemaNames == {"KYC", "Test"}

\* The (issuerDID, schemaName) pairs the Root of Trust is asked about.
IssuerSchemaPairs ==
    {<<getIssuerDID(NetPriv, IssuerScriptHash), "KYC">>,
     <<getIssuerDID(NetPriv, IssuerScriptHash), "Test">>,
     <<getIssuerDID(NetPriv, OtherIssuerScriptHash), "KYC">>}

ClaimIds == {"C1", "C2"}

\* Key pairs: the issuer's and a stranger's.
IssuerPrivateKey == "k-issuer"
OtherPrivateKey == "k-other"
IssuerPublicKey == "K-issuer"
OtherPublicKey == "K-other"

\* issuerDID.substring(9)
trimedDID(issuerDID) == SubSeq(issuerDID, 10, Len(issuerDID))

-----------------------------------------------------------------------------
(* The node's answer to invokeFunction / invokeScript *)

\* How an invocation can end: the contract answered; the invocation faulted
\* and the response has no stack; it faulted and the stack is empty; the RPC
\* request itself was rejected.
NodeModes == {"ok", "noStack", "emptyStack", "rpcError"}

BoolItem(b) == [type |-> "Boolean", value |-> b]

UndefinedItem == [type |-> "undefined", value |-> "undefined"]

InvokeResult(mode, item) ==
    CASE mode = "ok" ->
           [state |-> "HALT", exception |-> "null", stackNull |-> FALSE, stack |-> <<item>>]
      [] mode = "noStack" ->
           [state |-> "FAULT", exception |-> "fault", stackNull |-> TRUE, stack |-> <<>>]
      [] OTHER ->
           [state |-> "FAULT", exception |-> "fault", stackNull |-> FALSE, stack |-> <<>>]

\* Encodings of a text are written as tagged values: the base64 form of t is
\* [b64 |-> t], its hex form [hex |-> t].
Base64(t) == [b64 |-> t]

\* u.HexString.fromBase64(v).toString()
HexFromBase64(v) == [hex |-> v.b64]

\* rpc.StringParser(item): the text of a hex string
StringParser(item) == item.value.hex

\* rpc.IntegerParser(item): parseInt of the item's value
IntegerParser(item) ==
    CASE item.value = "0" -> "0"
      [] item.value = "1" -> "1"
      [] OTHER -> "NaN"

extractResult_noSuccess(res) ==
    [thrown |-> "none", success |-> "false", error |-> "no error",
     result |-> IF ~res.stackNull /\ Len(res.stack) > 0 THEN res.stack[1] ELSE UndefinedItem]

\* extractResult: the first stack item when the response carries a stack,
\* the exception otherwise.  Reading the type of an absent first item throws.
extractResult(res) ==
    IF ~res.stackNull
    THEN IF Len(res.stack) = 0
         THEN [thrown |-> "TypeError", success |-> "true", error |-> "no error",
               result |-> UndefinedItem]
         ELSE LET returnObject == res.stack[1] IN
              [thrown |-> "none", success |-> "true", error |-> "no error",
               result |->
                   CASE returnObject.type = "Array" ->
                          [returnObject EXCEPT !.value =
                              [i \in DOMAIN @ |->
                                  IF @[i].type = "ByteString"
                                  THEN [@[i] EXCEPT !.value = HexFromBase64(@)]
                                  ELSE @[i]]]
                     [] returnObject.type = "ByteString" ->
                          [returnObject EXCEPT !.value = HexFromBase64(@)]
                     [] OTHER -> returnObject]
    ELSE [thrown |-> "none", success |-> "false",
          error |-> IF res.exception = "null" THEN "undefined" ELSE res.exception,
          result |-> UndefinedItem]

\* What a call hands back: a value, or the error it threw.
Returned(v) == [thrown |-> "none", error |-> "none", ret |-> v]
Thrown(kind, msg) == [thrown |-> kind, error |-> msg, ret |-> "undefined"]

\* The rpcResult of an outcome that carries none.
NoRpcResult == [state |-> "none", exception |-> "null", stackNull |-> TRUE, stack |-> <<>>]

\* throw new SeraphIDError(message, rpcResult)
SeraphIDError(message, rpcResult) ==
    [thrown |-> "SeraphIDError", error |-> message, ret |-> "undefined",
     rpcResult |-> rpcResult]

\* sc.createScript({scriptHash, operation, args})
createScript(scriptHash, operation, args) ==
    [scriptHash |-> scriptHash, operation |-> operation, args |-> args]

\* sendSignedTransaction without the check of the dry run's state.
sendSignedTransaction_noDryRunCheck(script, invokeState, sendRes) ==
    IF ~sendRes
    THEN [thrown |-> "SeraphIDError", error |-> "Transaction failed",
          ret |-> "undefined", sent |-> TRUE, accepted |-> FALSE]
    ELSE [thrown |-> "none", error |-> "none",
          ret |-> "txhash", sent |-> TRUE, accepted |-> TRUE]

\* sendSignedTransaction without the check of the node's answer.
sendSignedTransaction_ignoresAnswer(script, invokeState, sendRes) ==
    IF invokeState # "HALT"
    THEN [thrown |-> "SeraphIDError", error |-> "invoke script failed",
          ret |-> "undefined", sent |-> FALSE, accepted |-> FALSE]
    ELSE [thrown |-> "none", error |-> "none",
          ret |-> "txhash", sent |-> TRUE, accepted |-> sendRes]

\* sendSignedTransaction: dry-run the script, then sign and broadcast it.
\* invokeState is the state the dry run ended in, sendRes whether the node's
\* answer to sendRawTransaction was truthy.
sendSignedTransaction(script, invokeState, sendRes) ==
    IF invokeState # "HALT"
    THEN [thrown |-> "SeraphIDError", error |-> "invoke script failed",
          ret |-> "undefined", sent |-> FALSE, accepted |-> FALSE]
    ELSE IF ~sendRes
         THEN [thrown |-> "SeraphIDError", error |-> "Transaction failed",
               ret |-> "undefined", sent |-> TRUE, accepted |-> FALSE]
         ELSE [thrown |-> "none", error |-> "none",
               ret |-> "txhash", sent |-> TRUE, accepted |-> TRUE]

\* The record of a completed client call.
\* mode is how the node answered the call's invocation.
Call(op, args, mode, out) ==
    [op |-> op, args |-> args, mode |-> mode,
     thrown |-> out.thrown, error |-> out.error, ret |-> out.ret,
     rpcResult |-> IF "rpcResult" \in DOMAIN out THEN out.rpcResult ELSE NoRpcResult]

NoCall ==
    [op |-> "none", args |-> <<>>, mode |-> "none",
     thrown |-> "none", error |-> "none", ret |-> "undefined",
     rpcResult |-> NoRpcResult]

NoTx == [script |-> createScript(<<>>, "none", <<>>), origin |-> <<>>]

\* The node takes an accepted transaction into its pool of pending ones.
Broadcast(pool, out, script, origin) ==
    IF out.accepted THEN pool \cup {[script |-> script, origin |-> origin]} ELSE pool

-----------------------------------------------------------------------------
(* The Root-of-Trust contract: a registry (issuer, schema) -> trusted *)

\* The name the contract answers its name operation with.
RotName == "Root of Trust"

RoTStored(reg, key) == IF key \in DOMAIN reg THEN reg[key] ELSE "false"

\* The stack item a read-only invocation of the contract hands back.
RoTInvoke(operation, args) ==
    CASE operation = RootOfTrustOperation.IsTrusted ->
           BoolItem(RoTStored(trustReg, args))
      [] operation = RootOfTrustOperation.Name ->
           [type |-> "ByteString", value |-> Base64(RotName)]
      [] OTHER -> BoolItem("true")

\* The registry after a transaction of the contract has taken effect.
RoTApply(reg, script) ==
    CASE script.operation = RootOfTrustOperation.RegisterIssuer ->
           (script.args :> "true") @@ reg
      [] script.operation = RootOfTrustOperation.DeactivateIssuer ->
           IF script.args \in DOMAIN reg THEN (script.args :> "false") @@ reg ELSE reg
      [] OTHER -> reg

-----------------------------------------------------------------------------
(* rot.ts: SeraphIDRootOfTrust *)

isTrustedParams_untrimmed(issuerDID, schemaName) == <<issuerDID, schemaName>>

\* The contract parameters of isTrusted.
isTrustedParams(issuerDID, schemaName) == <<trimedDID(issuerDID), schemaName>>

\* registerIssuer dropping the whole method prefix, colon included.
registerIssuerParams_fromEleventh(issuerDID, schemaName) ==
    <<SubSeq(issuerDID, 11, Len(issuerDID)), schemaName>>

\* The contract parameters of registerIssuer.
registerIssuerParams(issuerDID, schemaName) == <<trimedDID(issuerDID), schemaName>>

\* The contract parameters of deactivateIssuer.
deactivateIssuerParams(issuerDID, schemaName) == <<trimedDID(issuerDID), schemaName>>

isTrusted(issuerDID, schemaName, mode) ==
    IF mode = "rpcError"
    THEN Thrown("RpcError", "rpc")
    ELSE LET res == InvokeResult(mode, RoTInvoke(RootOfTrustOperation.IsTrusted,
                                                 isTrustedParams(issuerDID, schemaName)))
             seraphResult == extractResult(res)
         IN  IF seraphResult.thrown # "none"
             THEN Thrown(seraphResult.thrown, "type")
             ELSE IF seraphResult.success # "true"
                  THEN SeraphIDError(seraphResult.error, res)
                  ELSE Returned(seraphResult.result.value)

registerIssuer(issuerDID, schemaName, invokeState, sendRes) ==
    sendSignedTransaction(
        createScript(RotScriptHash, RootOfTrustOperation.RegisterIssuer,
                     registerIssuerParams(issuerDID, schemaName)),
        invokeState, sendRes)

deactivateIssuer(issuerDID, schemaName, invokeState, sendRes) ==
    sendSignedTransaction(
        createScript(RotScriptHash, RootOfTrustOperation.DeactivateIssuer,
                     deactivateIssuerParams(issuerDID, schemaName)),
        invokeState, sendRes)

\* A dry run that sent the registration.
registerIssuerTest_sends(issuerDID, schemaName, mode) ==
    registerIssuer(issuerDID, schemaName, "HALT", TRUE)

\* The dry runs of the two registrations: the operation is invoked on the
\* node, the answer is read, and nothing is returned.
registerIssuerTest(issuerDID, schemaName, mode) ==
    IF mode = "rpcError"
    THEN Thrown("RpcError", "rpc")
    ELSE LET res == InvokeResult(mode, RoTInvoke(RootOfTrustOperation.RegisterIssuer,
                                                 registerIssuerParams(issuerDID, schemaName)))
             seraphResult == extractResult(res)
         IN  IF seraphResult.thrown # "none"
             THEN Thrown(seraphResult.thrown, "type")
             ELSE IF seraphResult.success # "true"
                  THEN SeraphIDError(seraphResult.error, res)
                  ELSE Returned("undefined")

deactivateIssuerTest(issuerDID, schemaName, mode) ==
    IF mode = "rpcError"
    THEN Thrown("RpcError", "rpc")
    ELSE LET res == InvokeResult(mode, RoTInvoke(RootOfTrustOperation.DeactivateIssuer,
                                                 deactivateIssuerParams(issuerDID, schemaName)))
             seraphResult == extractResult(res)
         IN  IF seraphResult.thrown # "none"
             THEN Thrown(seraphResult.thrown, "type")
             ELSE IF seraphResult.success # "true"
                  THEN SeraphIDError(seraphResult.error, res)
                  ELSE Returned("undefined")

-----------------------------------------------------------------------------
(* The Issuer contract: a schema registry and a claim registry *)

\* JSON.stringify(schema) and JSON.parse(text): the text of v is [json |-> v].
JSONstringify(v) == [json |-> v]
JSONparse(text) == text.json

\* The schemas an issuer registers.  The second has the name of the first
\* and another content.
SchemaObjects ==
    {[name |-> "KYC", attributes |-> <<"firstName", "age">>, revokable |-> "true"],
     [name |-> "KYC", attributes |-> <<"age">>, revokable |-> "false"],
     [name |-> "Test", attributes |-> <<"age">>, revokable |-> "true"]}

\* The name the contract answers its name operation with.
IssuerName == "Issuer"

\* A read-only invocation faults when it asks for a schema that is not stored.
IssuerInvokeMode(mode, operation, args) ==
    IF mode = "ok" /\ operation = IssuerOperation.GetSchemaDetails
                  /\ args[1] \notin DOMAIN schemaReg
    THEN "emptyStack"
    ELSE mode

\* The stack item a read-only invocation of the contract hands back.
IssuerInvoke(operation, args) ==
    CASE operation = IssuerOperation.IsValidClaim ->
           BoolItem(IF claimReg[args[1]] = "Valid" THEN "true" ELSE "false")
      [] operation = IssuerOperation.GetSchemaDetails /\ args[1] \in DOMAIN schemaReg ->
           [type |-> "ByteString", value |-> Base64(schemaReg[args[1]])]
      [] operation = IssuerOperation.Name ->
           [type |-> "ByteString", value |-> Base64(IssuerName)]
      [] operation \in {IssuerOperation.GetAdminsList, IssuerRecoveryOperation.GetPublicKeys} ->
           [type |-> "Array",
            value |-> [i \in DOMAIN pubKeys |->
                          [type |-> "ByteString", value |-> Base64(pubKeys[i])]]]
      [] OTHER -> BoolItem("true")

\* The claim registry after a transaction of the contract has taken effect:
\* a claim id is recorded once, and a recorded claim is revoked for good.
ClaimsApply(reg, script) ==
    CASE script.operation = IssuerOperation.InjectClaim ->
           IF reg[script.args[1]] = "Nonexistent"
           THEN [reg EXCEPT ![script.args[1]] = "Valid"]
           ELSE reg
      [] script.operation = IssuerOperation.RevokeClaim ->
           IF reg[script.args[1]] = "Valid"
           THEN [reg EXCEPT ![script.args[1]] = "Revoked"]
           ELSE reg
      [] OTHER -> reg

\* The key list after a transaction of the contract has taken effect: a key
\* that is not on the list is added at its end, a key on the list removed.
KeysApply(keys, script) ==
    CASE script.operation = IssuerRecoveryOperation.AddKeyByRecovery ->
           IF \E i \in DOMAIN keys : keys[i] = script.args[1]
           THEN keys
           ELSE Append(keys, script.args[1])
      [] script.operation = IssuerRecoveryOperation.RemoveKeyByRecovery ->
           SelectSeq(keys, LAMBDA k : k # script.args[1])
      [] OTHER -> keys

\* The schema registry after a transaction of the contract has taken effect:
\* a name is bound once.
SchemasApply(reg, script) ==
    IF script.operation = IssuerOperation.RegisterSchema
       /\ script.args[1] \notin DOMAIN reg
    THEN (script.args[1] :> script.args[2]) @@ reg
    ELSE reg

-----------------------------------------------------------------------------
(* contract-base.ts: the reads shared by the contract clients *)

\* The stack item the contract at scriptHash answers a read-only invocation with.
ContractInvoke(scriptHash, operation, args) ==
    IF scriptHash = RotScriptHash
    THEN RoTInvoke(operation, args)
    ELSE IssuerInvoke(operation, args)

getStringFromOperation(scriptHash, operation, mode) ==
    IF mode = "rpcError"
    THEN Thrown("RpcError", "rpc")
    ELSE LET res == InvokeResult(mode, ContractInvoke(scriptHash, operation, <<>>))
             seraphResult == extractResult(res)
         IN  IF seraphResult.thrown # "none"
             THEN Thrown(seraphResult.thrown, "type")
             ELSE IF seraphResult.success = "true"
                  THEN Returned(StringParser(seraphResult.result))
                  ELSE SeraphIDError(seraphResult.error, res)

getStringArrayFromOperation_firstOnly(scriptHash, operation, mode) ==
    IF mode = "ok"
    THEN Returned(SubSeq(
             [i \in DOMAIN ContractInvoke(scriptHash, operation, <<>>).value |->
                 HexFromBase64(ContractInvoke(scriptHash, operation, <<>>).value[i].value)], 1, 1))
    ELSE Thrown("TypeError", "type")

\* The length of the result's value is read before success is looked at:
\* with no result there is no value to read the length of.
getStringArrayFromOperation(scriptHash, operation, mode) ==
    IF mode = "rpcError"
    THEN Thrown("RpcError", "rpc")
    ELSE LET res == InvokeResult(mode, ContractInvoke(scriptHash, operation, <<>>))
             seraphResult == extractResult(res)
         IN  IF seraphResult.thrown # "none"
             THEN Thrown(seraphResult.thrown, "type")
             ELSE IF seraphResult.result = UndefinedItem
                  THEN Thrown("TypeError", "type")
                  ELSE IF seraphResult.success = "true"
                       THEN Returned([i \in DOMAIN seraphResult.result.value |->
                                         seraphResult.result.value[i].value])
                       ELSE SeraphIDError(seraphResult.error, res)

\* rot.ts: getName
getName(mode) == getStringFromOperation(RotScriptHash, RootOfTrustOperation.Name, mode)

-----------------------------------------------------------------------------
(* issuer-contract.ts: SeraphIDIssuerContract *)

getIssuerName(mode) == getStringFromOperation(IssuerScriptHash, IssuerOperation.Name, mode)

getAdminList(mode) ==
    getStringArrayFromOperation(IssuerScriptHash, IssuerOperation.GetAdminsList, mode)

getIssuerPublicKeys(mode) ==
    getStringArrayFromOperation(IssuerScriptHash, IssuerRecoveryOperation.GetPublicKeys, mode)

getSchemaDetails(schemaName, mode) ==
    IF mode = "rpcError"
    THEN Thrown("RpcError", "rpc")
    ELSE LET args == <<schemaName>>
             res == InvokeResult(IssuerInvokeMode(mode, IssuerOperation.GetSchemaDetails, args),
                                 IssuerInvoke(IssuerOperation.GetSchemaDetails, args))
             seraphResult == extractResult(res)
         IN  IF seraphResult.thrown # "none"
             THEN Thrown(seraphResult.thrown, "type")
             ELSE IF seraphResult.success # "true"
                  THEN SeraphIDError(seraphResult.error, res)
                  ELSE Returned(JSONparse(StringParser(seraphResult.result)))

isValidClaim_negated(claimId, mode) ==
    IF mode = "rpcError"
    THEN Thrown("RpcError", "rpc")
    ELSE LET res == InvokeResult(mode, IssuerInvoke(IssuerOperation.IsValidClaim, <<claimId>>))
         IN  IF ~res.stackNull /\ Len(res.stack) = 1
             THEN Returned(IF res.stack[1].value = "true" THEN "false" ELSE "true")
             ELSE Thrown("SeraphIDError", "fault")

isValidClaim_answered(claimId, mode) ==
    IF mode = "rpcError"
    THEN Thrown("RpcError", "rpc")
    ELSE LET res == InvokeResult(mode, IssuerInvoke(IssuerOperation.IsValidClaim, <<claimId>>))
         IN  IF ~res.stackNull /\ Len(res.stack) = 1
             THEN Returned("true")
             ELSE Thrown("SeraphIDError", "fault")

isValidClaim_swallow(claimId, mode) ==
    IF mode = "rpcError"
    THEN Thrown("RpcError", "rpc")
    ELSE LET res == InvokeResult(mode, IssuerInvoke(IssuerOperation.IsValidClaim, <<claimId>>))
         IN  IF ~res.stackNull /\ Len(res.stack) = 1
             THEN Returned(res.stack[1].value)
             ELSE Returned("false")

isValidClaim(claimId, mode) ==
    IF mode = "rpcError"
    THEN Thrown("RpcError", "rpc")
    ELSE LET res == InvokeResult(mode, IssuerInvoke(IssuerOperation.IsValidClaim, <<claimId>>))
         IN  IF ~res.stackNull /\ Len(res.stack) = 1
             THEN Returned(res.stack[1].value)
             ELSE LET seraphResult == extractResult(res)
                  IN  IF seraphResult.thrown # "none"
                      THEN Thrown(seraphResult.thrown, "type")
                      ELSE IF seraphResult.success # "true"
                           THEN SeraphIDError(seraphResult.error, res)
                           ELSE Returned(IF IntegerParser(seraphResult.result) # "0"
                                         THEN "true" ELSE "false")

registerSchemaScript_otherContent(schema) ==
    createScript(IssuerScriptHash, IssuerOperation.RegisterSchema,
                 <<schema.name, JSONstringify([schema EXCEPT !.attributes = <<>>])>>)

registerSchemaScript(schema) ==
    createScript(IssuerScriptHash, IssuerOperation.RegisterSchema,
                 <<schema.name, JSONstringify(schema)>>)

registerSchema(schema, invokeState, sendRes) ==
    sendSignedTransaction(registerSchemaScript(schema), invokeState, sendRes)

injectClaimScript(claimId) ==
    createScript(IssuerScriptHash, IssuerOperation.InjectClaim, <<claimId>>)

injectClaim(claimId, invokeState, sendRes) ==
    sendSignedTransaction(injectClaimScript(claimId), invokeState, sendRes)

revokeClaimScript(claimId) ==
    createScript(IssuerScriptHash, IssuerOperation.RevokeClaim, <<claimId>>)

revokeClaim(claimId, invokeState, sendRes) ==
    sendSignedTransaction(revokeClaimScript(claimId), invokeState, sendRes)

\* The dry runs of the three issuer operations. The dry run of a schema
\* registration passes the revokable flag as a third parameter.
registerSchemaTestParams(schema) ==
    <<schema.name, JSONstringify(schema), schema.revokable>>

registerSchemaTest(schema, mode) ==
    IF mode = "rpcError"
    THEN Thrown("RpcError", "rpc")
    ELSE LET res == InvokeResult(mode, IssuerInvoke(IssuerOperation.RegisterSchema,
                                                    registerSchemaTestParams(schema)))
             seraphResult == extractResult(res)
         IN  IF seraphResult.thrown # "none"
             THEN Thrown(seraphResult.thrown, "type")
             ELSE IF seraphResult.success # "true"
                  THEN SeraphIDError(seraphResult.error, res)
                  ELSE Returned("undefined")

injectClaimTest(claimId, mode) ==
    IF mode = "rpcError"
    THEN Thrown("RpcError", "rpc")
    ELSE LET res == InvokeResult(mode, IssuerInvoke(IssuerOperation.InjectClaim, <<claimId>>))
             seraphResult == extractResult(res)
         IN  IF seraphResult.thrown # "none"
             THEN Thrown(seraphResult.thrown, "type")
             ELSE IF seraphResult.success # "true"
                  THEN SeraphIDError(seraphResult.error, res)
                  ELSE Returned("undefined")

revokeClaimTest(claimId, mode) ==
    IF mode = "rpcError"
    THEN Thrown("RpcError", "rpc")
    ELSE LET res == InvokeResult(mode, IssuerInvoke(IssuerOperation.RevokeClaim, <<claimId>>))
             seraphResult == extractResult(res)
         IN  IF seraphResult.thrown # "none"
             THEN Thrown(seraphResult.thrown, "type")
             ELSE IF seraphResult.success # "true"
                  THEN SeraphIDError(seraphResult.error, res)
                  ELSE Returned("undefined")

\* sc.ContractParam.byteArray(key): the bytes a hex string stands for.
byteArray(hexString) == hexString.hex

\* The keys of the recovery calls, as the hex strings the caller writes.
KeyHex(key) == [hex |-> key]
AddedPublicKey == "K-added"
RecoveryKeys == {KeyHex(IssuerPublicKey), KeyHex(OtherPublicKey), KeyHex(AddedPublicKey)}

\* The authorisation of a recovery call: indexes of the recovery members
\* that signed, the message and their signatures.
RecoveryIndexes == <<"0">>
RecoveryMessage == "message"
RecoverySignatures == <<"resetSignature">>

AddKeyByRecoveryScript(addedPubKey) ==
    createScript(IssuerScriptHash, IssuerRecoveryOperation.AddKeyByRecovery,
                 <<byteArray(addedPubKey), RecoveryIndexes, RecoveryMessage, RecoverySignatures>>)

AddKeyByRecovery(addedPubKey, invokeState, sendRes) ==
    sendSignedTransaction(AddKeyByRecoveryScript(addedPubKey), invokeState, sendRes)

RemoveKeyByRecoveryScript(removedPubKey) ==
    createScript(IssuerScriptHash, IssuerRecoveryOperation.RemoveKeyByRecovery,
                 <<byteArray(removedPubKey), RecoveryIndexes, RecoveryMessage, RecoverySignatures>>)

RemoveKeyByRecovery(removedPubKey, invokeState, sendRes) ==
    sendSignedTransaction(RemoveKeyByRecoveryScript(removedPubKey), invokeState, sendRes)

-----------------------------------------------------------------------------
(* Claims, signatures and the lifecycle validation of the Issuer / Verifier *)

OwnerDID == getIssuerDID(NetPriv, <<"o","w","n">>)

\* Points in time, in their order.
Times == {"t1", "t2", "t3"}
TimeOrd == ("t1" :> 1) @@ ("t2" :> 2) @@ ("t3" :> 3)

PublicKeyOf(privateKey) ==
    IF privateKey = IssuerPrivateKey THEN IssuerPublicKey ELSE OtherPublicKey

\* The attribute names in their lexicographic order.
NameOrd == ("age" :> 1) @@ ("extra" :> 2) @@ ("firstName" :> 3)

\* The attributes in the canonical order: by attribute name.
SortedAttributes(attributes) ==
    LET pairs == {attributes[i] : i \in DOMAIN attributes}
    IN  CHOOSE s \in [1..Cardinality(pairs) -> pairs] :
            \A i, j \in 1..Cardinality(pairs) :
                i < j => NameOrd[s[i][1]] < NameOrd[s[j][1]]

canonicalize_asWritten(claim) ==
    <<claim.id, claim.ownerDID, claim.schema, claim.attributes>>

\* 4.2 canonicalize: the signable fields of a claim, id, ownerDID, schema
\* and the attributes in the canonical order.
canonicalize(claim) ==
    <<claim.id, claim.ownerDID, claim.schema, SortedAttributes(claim.attributes)>>

\* The digest of a byte sequence; two byte sequences have the same digest
\* only if they are the same.
sha256(bytes) == [sha256 |-> bytes]

\* 4.2 hash: the digest of the canonical form of the claim.
getClaimHash(claim) == sha256(canonicalize(claim))

\* A signature is a sequence of two parts, which bind it to the digest and
\* to the key pair.  No signature, and bytes that are no signature:
NoSignature == <<>>
TruncatedSignature == <<sha256(<<>>)>>

\* 4.3 sign
sign(digest, privateKey) == <<digest, PublicKeyOf(privateKey)>>

verify_keyOnly(digest, signature, publicKey) ==
    Len(signature) = 2 /\ signature[2] = publicKey

\* 4.3 verify: false for bytes that are no signature.
verify(digest, signature, publicKey) ==
    /\ Len(signature) = 2
    /\ signature[1] = digest
    /\ signature[2] = publicKey

\* A signature with a byte of its i-th part altered.
Flip(signature, i) ==
    IF i = 1
    THEN [signature EXCEPT ![1] = sha256(<<"flipped", @>>)]
    ELSE [signature EXCEPT ![2] = "flipped"]

\* The attribute lists of the claims: the schema's attributes, one missing,
\* one too many.
ConformingAttributes == << <<"firstName", "John">>, <<"age", "26">> >>
MissingAttribute == << <<"firstName", "John">> >>
ExtraAttribute == << <<"firstName", "John">>, <<"age", "26">>, <<"extra", "x">> >>
\* The schema's attributes written in the other order.
ReorderedAttributes == << <<"age", "26">>, <<"firstName", "John">> >>

createClaim(id, schemaName, attributes, validFrom, validTo) ==
    [id |-> id, ownerDID |-> OwnerDID, issuerDID |-> <<>>, schema |-> schemaName,
     attributes |-> attributes, signature |-> NoSignature,
     validFrom |-> validFrom, validTo |-> validTo, tx |-> "undefined"]

SignedBy(claim, privateKey) ==
    [claim EXCEPT !.signature = sign(getClaimHash(claim), privateKey)]

\* <<validFrom, validTo, now>>: no bounds; before validFrom; validTo missing
\* and past validFrom; after validTo; validFrom missing and before validTo;
\* now on both bounds.
WindowCases ==
    {<<"undefined", "undefined", "t2">>,
     <<"t2", "undefined", "t1">>,
     <<"t2", "undefined", "t3">>,
     <<"undefined", "t2", "t3">>,
     <<"undefined", "t2", "t1">>,
     <<"t2", "t2", "t2">>}

\* A claim of the registered schema, signed by the issuer, without bounds.
ConformingClaim(id) ==
    SignedBy(createClaim(id, "KYC", ConformingAttributes, "undefined", "undefined"),
             IssuerPrivateKey)

ValidateInput(claim, cv, now, mode) == [claim |-> claim, cv |-> cv, now |-> now, mode |-> mode]

\* What a caller-supplied predicate does with the claim it is given.
CustomValidators == {"none", "true", "false", "throws"}

\* The calls of validateClaim: every combination of signer, attributes and
\* validity window without a predicate, and every combination of signer,
\* attributes and predicate for a claim without bounds and an expired one,
\* for an answering node; and a claim with an
\* attribute too many, an unsigned claim, a claim of a schema that is not
\* registered, and a node that fails.
ValidateInputs ==
    {ValidateInput(SignedBy(createClaim(id, "KYC", attrs, w[1], w[2]), signer), "none", w[3], "ok") :
        id \in ClaimIds, attrs \in {ConformingAttributes, MissingAttribute},
        w \in WindowCases, signer \in {IssuerPrivateKey, OtherPrivateKey}}
    \cup {ValidateInput(SignedBy(createClaim(id, "KYC", attrs, w[1], w[2]), signer), cv, w[3], "ok") :
        id \in ClaimIds, attrs \in {ConformingAttributes, MissingAttribute},
        w \in {<<"undefined", "undefined", "t2">>, <<"undefined", "t2", "t3">>},
        signer \in {IssuerPrivateKey, OtherPrivateKey},
        cv \in CustomValidators}
    \cup {ValidateInput(SignedBy(createClaim(id, "KYC", ExtraAttribute, "undefined", "undefined"),
                                 IssuerPrivateKey), "none", "t2", "ok") : id \in ClaimIds}
    \cup {ValidateInput(createClaim(id, "KYC", ConformingAttributes, "undefined", "undefined"),
                        "none", "t2", "ok") : id \in ClaimIds}
    \cup {ValidateInput(SignedBy(createClaim(id, "Test", ConformingAttributes, "undefined", "undefined"),
                                 IssuerPrivateKey), "none", "t2", "ok") : id \in ClaimIds}
    \cup {ValidateInput(ConformingClaim(id), "none", "t2", mode) :
             id \in ClaimIds, mode \in NodeModes \ {"ok"}}

\* A validation result: success, or the check that failed.
Passed == [success |-> "true", error |-> "none"]
Failed(error) == [success |-> "false", error |-> error]

validateAttributes_allowsExtra(claim, schema) ==
    IF /\ claim.schema = schema.name
       /\ {schema.attributes[i] : i \in DOMAIN schema.attributes}
              \subseteq {claim.attributes[i][1] : i \in DOMAIN claim.attributes}
    THEN Passed
    ELSE Failed("SchemaMismatch")

\* 4.4: the claim names the schema and has exactly the schema's attributes.
validateAttributes(claim, schema) ==
    IF /\ claim.schema = schema.name
       /\ {claim.attributes[i][1] : i \in DOMAIN claim.attributes}
              = {schema.attributes[i] : i \in DOMAIN schema.attributes}
    THEN Passed
    ELSE Failed("SchemaMismatch")

verifyOffline_online(claim, issuerPublicKey) ==
    /\ verify(getClaimHash(claim), claim.signature, issuerPublicKey)
    /\ claimReg[claim.id] # "Revoked"

\* 4.6: the signature check against a given public key.
verifyOffline(claim, issuerPublicKey) ==
    verify(getClaimHash(claim), claim.signature, issuerPublicKey)

inValidityWindow_requiresBounds(claim, now) ==
    /\ claim.validFrom # "undefined" /\ TimeOrd[claim.validFrom] <= TimeOrd[now]
    /\ claim.validTo # "undefined" /\ TimeOrd[now] <= TimeOrd[claim.validTo]

\* 4.5 (d): now lies in [validFrom, validTo]; a missing bound is no bound.
inValidityWindow(claim, now) ==
    /\ claim.validFrom = "undefined" \/ TimeOrd[claim.validFrom] <= TimeOrd[now]
    /\ claim.validTo = "undefined" \/ TimeOrd[now] <= TimeOrd[claim.validTo]

customCheck_ignoresThrow(customValidator) ==
    IF customValidator = "false" THEN Failed("CustomValidationFailed") ELSE Passed

\* 4.5 step 5: the caller's predicate as a fifth check; a predicate that
\* throws fails the validation.
customCheck(customValidator) ==
    CASE customValidator = "throws" -> Failed("CustomValidationError")
      [] customValidator = "false" -> Failed("CustomValidationFailed")
      [] OTHER -> Passed

\* 4.5 steps 3-5 with the answers of the remote reads: the first check that
\* fails decides the result.
lifecycleResult(claim, schema, keys, valid, now, customValidator) ==
    CASE ~(\E i \in DOMAIN keys : verifyOffline(claim, keys[i])) -> Failed("SignatureFailure")
      [] validateAttributes(claim, schema).success # "true" -> validateAttributes(claim, schema)
      [] valid # "true" -> Failed("Revoked")
      [] ~inValidityWindow(claim, now) -> Failed("OutOfDateRange")
      [] OTHER -> customCheck(customValidator)

\* validateClaim(claim, customValidator?) at time now: the remote reads
\* (schema, validity of the claim id) and then the checks.  A remote read
\* that fails is thrown on to the caller.
validateClaim(claim, customValidator, now, mode) ==
    LET schema == getSchemaDetails(claim.schema, mode)
        valid == isValidClaim(claim.id, mode)
    IN  IF schema.thrown # "none"
        THEN Thrown(schema.thrown, schema.error)
        ELSE IF valid.thrown # "none"
             THEN Thrown(valid.thrown, valid.error)
             ELSE LET result == lifecycleResult(claim, schema.ret, pubKeys, valid.ret,
                                                now, customValidator)
                  IN  [thrown |-> "none", error |-> result.error, ret |-> result.success]

\* 4.5 step 1, issueClaim: the claim's structure is checked against the
\* registered schema before anything is signed.
validateClaimStructure(claim, mode) ==
    LET schema == getSchemaDetails(claim.schema, mode)
    IN  IF schema.thrown # "none"
        THEN Thrown(schema.thrown, schema.error)
        ELSE IF validateAttributes(claim, schema.ret).success # "true"
             THEN Thrown("SeraphIDError", validateAttributes(claim, schema.ret).error)
             ELSE Returned("true")

claimToInject_unsigned(claim, issuerPrivateKey) == claim

\* issueClaim: the claim object as it is when injectClaim is called,
\* Created -> Signed.
claimToInject(claim, issuerPrivateKey) == SignedBy(claim, issuerPrivateKey)

\* issueClaim: the claim object it returns, with the transaction of the
\* injection.
issuedClaim(claim, txHash) == [claim EXCEPT !.tx = txHash]

\* The claim objects the callers hold before issueClaim: of the registered
\* schema, with an attribute missing, of a schema that is not registered.
IssueInputs(id) ==
    {createClaim(id, "KYC", ConformingAttributes, "undefined", "undefined"),
     createClaim(id, "KYC", MissingAttribute, "undefined", "undefined"),
     createClaim(id, "Test", ConformingAttributes, "undefined", "undefined")}

Issuing(pc, claim) == [pc |-> pc, claim |-> claim]

\* Nobody issues a claim.
NotIssuing ==
    [id \in ClaimIds |->
        Issuing("created", createClaim(id, "KYC", ConformingAttributes, "undefined", "undefined"))]

\* No key has been added by recovery.
NoKeyAdded == [key |-> KeyHex("none"), keys |-> <<>>, removed |-> FALSE]

-----------------------------------------------------------------------------
(* Actions of the Root-of-Trust scenario *)

InvokeStates == {"HALT", "FAULT"}

IsTrustedCall ==
    \E p \in IssuerSchemaPairs, mode \in NodeModes :
        /\ last' = Call("isTrusted", p, mode, isTrusted(p[1], p[2], mode))
        /\ UNCHANGED <<trustReg, claimReg, schemaReg, pubKeys, mempool, lastConfirmed, seen, issuing, keysBefore>>

RegisterIssuerCall ==
    \E p \in IssuerSchemaPairs, st \in InvokeStates, ok \in BOOLEAN :
        LET out == registerIssuer(p[1], p[2], st, ok)
            script == createScript(RotScriptHash, RootOfTrustOperation.RegisterIssuer,
                                   registerIssuerParams(p[1], p[2]))
        IN  /\ out.accepted => Cardinality(mempool) < MaxPending
            /\ mempool' = Broadcast(mempool, out, script, p)
            /\ last' = Call("registerIssuer", p, st, out)
            /\ UNCHANGED <<trustReg, claimReg, schemaReg, pubKeys, lastConfirmed, seen, issuing, keysBefore>>

DeactivateIssuerCall ==
    \E p \in IssuerSchemaPairs, st \in InvokeStates, ok \in BOOLEAN :
        LET out == deactivateIssuer(p[1], p[2], st, ok)
            script == createScript(RotScriptHash, RootOfTrustOperation.DeactivateIssuer,
                                   deactivateIssuerParams(p[1], p[2]))
        IN  /\ out.accepted => Cardinality(mempool) < MaxPending
            /\ mempool' = Broadcast(mempool, out, script, p)
            /\ last' = Call("deactivateIssuer", p, st, out)
            /\ UNCHANGED <<trustReg, claimReg, schemaReg, pubKeys, lastConfirmed, seen, issuing, keysBefore>>

\* A block is produced: one pending Root-of-Trust transaction takes effect.
ConfirmRoT ==
    \E t \in mempool :
        /\ t.script.scriptHash = RotScriptHash
        /\ mempool' = mempool \ {t}
        /\ trustReg' = RoTApply(trustReg, t.script)
        /\ lastConfirmed' = t
        /\ UNCHANGED <<claimReg, schemaReg, pubKeys, last, seen, issuing, keysBefore>>

-----------------------------------------------------------------------------
(* Actions of the Issuer-contract scenario *)

\* What isValidClaim has answered for a claim id so far: nothing, true,
\* false after true, true again after that.
SeenAfter(before, out) ==
    CASE out.thrown # "none" -> before
      [] out.ret = "true" /\ before \in {"none", "true"} -> "true"
      [] out.ret = "true" -> "trueAgain"
      [] before = "true" -> "falseAfterTrue"
      [] OTHER -> before

IsValidClaimCall ==
    \E id \in ClaimIds, mode \in NodeModes :
        LET out == isValidClaim(id, mode)
        IN  /\ last' = Call("isValidClaim", <<id>>, mode, out)
            /\ seen' = [seen EXCEPT ![id] = SeenAfter(@, out)]
            /\ UNCHANGED <<trustReg, claimReg, schemaReg, pubKeys, mempool, lastConfirmed, issuing, keysBefore>>

GetSchemaDetailsCall ==
    \E name \in SchemaNames, mode \in NodeModes :
        /\ last' = Call("getSchemaDetails", <<name>>, mode, getSchemaDetails(name, mode))
        /\ UNCHANGED <<trustReg, claimReg, schemaReg, pubKeys, mempool, lastConfirmed, seen, issuing, keysBefore>>

\* getDID of a Root-of-Trust client constructed with (scriptHash, network).
GetDIDCall ==
    \E network \in DIDNetwork, scriptHash \in ScriptHashes :
        /\ last' = Call("getDID", <<network, scriptHash>>, "none",
                        Returned(getDID(network, scriptHash)))
        /\ UNCHANGED <<trustReg, claimReg, schemaReg, pubKeys, mempool, lastConfirmed, seen, issuing, keysBefore>>

\* getIssuerDID of an Issuer client constructed with (scriptHash, network).
GetIssuerDIDCall ==
    \E network \in DIDNetwork, scriptHash \in ScriptHashes :
        /\ last' = Call("getIssuerDID", <<network, scriptHash>>, "none",
                        Returned(getIssuerDID(network, scriptHash)))
        /\ UNCHANGED <<trustReg, claimReg, schemaReg, pubKeys, mempool, lastConfirmed, seen, issuing, keysBefore>>

GetNameCall ==
    \E mode \in NodeModes :
        /\ last' = Call("getName", <<>>, mode, getName(mode))
        /\ UNCHANGED <<trustReg, claimReg, schemaReg, pubKeys, mempool, lastConfirmed, seen, issuing, keysBefore>>

GetIssuerNameCall ==
    \E mode \in NodeModes :
        /\ last' = Call("getIssuerName", <<>>, mode, getIssuerName(mode))
        /\ UNCHANGED <<trustReg, claimReg, schemaReg, pubKeys, mempool, lastConfirmed, seen, issuing, keysBefore>>

GetAdminListCall ==
    \E mode \in NodeModes :
        /\ last' = Call("getAdminList", <<>>, mode, getAdminList(mode))
        /\ UNCHANGED <<trustReg, claimReg, schemaReg, pubKeys, mempool, lastConfirmed, seen, issuing, keysBefore>>

GetIssuerPublicKeysCall ==
    \E mode \in NodeModes :
        /\ last' = Call("getIssuerPublicKeys", <<>>, mode, getIssuerPublicKeys(mode))
        /\ UNCHANGED <<trustReg, claimReg, schemaReg, pubKeys, mempool, lastConfirmed, seen, issuing, keysBefore>>

RegisterSchemaCall ==
    \E schema \in SchemaObjects, st \in InvokeStates, ok \in BOOLEAN :
        LET out == registerSchema(schema, st, ok)
        IN  /\ out.accepted => Cardinality(mempool) < MaxPending
            /\ mempool' = Broadcast(mempool, out, registerSchemaScript(schema), <<schema.name>>)
            /\ last' = Call("registerSchema", <<schema.name>>, st, out)
            /\ UNCHANGED <<trustReg, claimReg, schemaReg, pubKeys, lastConfirmed, seen, issuing, keysBefore>>

InjectClaimCall ==
    \E id \in ClaimIds, st \in InvokeStates, ok \in BOOLEAN :
        LET out == injectClaim(id, st, ok)
        IN  /\ out.accepted => Cardinality(mempool) < MaxPending
            /\ mempool' = Broadcast(mempool, out, injectClaimScript(id), <<id>>)
            /\ last' = Call("injectClaim", <<id>>, st, out)
            /\ UNCHANGED <<trustReg, claimReg, schemaReg, pubKeys, lastConfirmed, seen, issuing, keysBefore>>

RevokeClaimCall ==
    \E id \in ClaimIds, st \in InvokeStates, ok \in BOOLEAN :
        LET out == revokeClaim(id, st, ok)
        IN  /\ out.accepted => Cardinality(mempool) < MaxPending
            /\ mempool' = Broadcast(mempool, out, revokeClaimScript(id), <<id>>)
            /\ last' = Call("revokeClaim", <<id>>, st, out)
            /\ UNCHANGED <<trustReg, claimReg, schemaReg, pubKeys, lastConfirmed, seen, issuing, keysBefore>>

\* What a call leaves in the node's pool: a call that sent a transaction the
\* node accepted leaves that transaction, a call that only invoked leaves nothing.
Transmitted(pool, out, script, origin) ==
    IF "accepted" \in DOMAIN out THEN Broadcast(pool, out, script, origin) ELSE pool

RegisterIssuerTestCall ==
    \E p \in IssuerSchemaPairs, mode \in NodeModes :
        LET out == registerIssuerTest(p[1], p[2], mode)
            script == createScript(RotScriptHash, RootOfTrustOperation.RegisterIssuer,
                                   registerIssuerParams(p[1], p[2]))
        IN  /\ mempool' = Transmitted(mempool, out, script, p)
            /\ last' = Call("registerIssuerTest", p, mode, out)
            /\ UNCHANGED <<trustReg, claimReg, schemaReg, pubKeys, lastConfirmed, seen, issuing, keysBefore>>

DeactivateIssuerTestCall ==
    \E p \in IssuerSchemaPairs, mode \in NodeModes :
        LET out == deactivateIssuerTest(p[1], p[2], mode)
            script == createScript(RotScriptHash, RootOfTrustOperation.DeactivateIssuer,
                                   deactivateIssuerParams(p[1], p[2]))
        IN  /\ mempool' = Transmitted(mempool, out, script, p)
            /\ last' = Call("deactivateIssuerTest", p, mode, out)
            /\ UNCHANGED <<trustReg, claimReg, schemaReg, pubKeys, lastConfirmed, seen, issuing, keysBefore>>

RegisterSchemaTestCall ==
    \E schema \in SchemaObjects, mode \in NodeModes :
        LET out == registerSchemaTest(schema, mode)
            script == createScript(IssuerScriptHash, IssuerOperation.RegisterSchema,
                                   registerSchemaTestParams(schema))
        IN  /\ mempool' = Transmitted(mempool, out, script, <<schema.name>>)
            /\ last' = Call("registerSchemaTest", <<schema.name>>, mode, out)
            /\ UNCHANGED <<trustReg, claimReg, schemaReg, pubKeys, lastConfirmed, seen, issuing, keysBefore>>

InjectClaimTestCall ==
    \E id \in ClaimIds, mode \in NodeModes :
        LET out == injectClaimTest(id, mode)
        IN  /\ mempool' = Transmitted(mempool, out, injectClaimScript(id), <<id>>)
            /\ last' = Call("injectClaimTest", <<id>>, mode, out)
            /\ UNCHANGED <<trustReg, claimReg, schemaReg, pubKeys, lastConfirmed, seen, issuing, keysBefore>>

RevokeClaimTestCall ==
    \E id \in ClaimIds, mode \in NodeModes :
        LET out == revokeClaimTest(id, mode)
        IN  /\ mempool' = Transmitted(mempool, out, revokeClaimScript(id), <<id>>)
            /\ last' = Call("revokeClaimTest", <<id>>, mode, out)
            /\ UNCHANGED <<trustReg, claimReg, schemaReg, pubKeys, lastConfirmed, seen, issuing, keysBefore>>

AddKeyByRecoveryCall ==
    \E key \in RecoveryKeys, st \in InvokeStates, ok \in BOOLEAN :
        LET out == AddKeyByRecovery(key, st, ok)
        IN  /\ out.accepted => Cardinality(mempool) < MaxPending
            /\ mempool' = Broadcast(mempool, out, AddKeyByRecoveryScript(key), <<key>>)
            /\ last' = Call("AddKeyByRecovery", <<key>>, st, out)
            /\ UNCHANGED <<trustReg, claimReg, schemaReg, pubKeys, lastConfirmed, seen, issuing, keysBefore>>

RemoveKeyByRecoveryCall ==
    \E key \in RecoveryKeys, st \in InvokeStates, ok \in BOOLEAN :
        LET out == RemoveKeyByRecovery(key, st, ok)
        IN  /\ out.accepted => Cardinality(mempool) < MaxPending
            /\ mempool' = Broadcast(mempool, out, RemoveKeyByRecoveryScript(key), <<key>>)
            /\ last' = Call("RemoveKeyByRecovery", <<key>>, st, out)
            /\ UNCHANGED <<trustReg, claimReg, schemaReg, pubKeys, lastConfirmed, seen, issuing, keysBefore>>

\* The transaction changes the schema registry or the key list.
RecordedOnConfirm(script) ==
    script.operation \in {IssuerOperation.RegisterSchema,
                          IssuerRecoveryOperation.AddKeyByRecovery,
                          IssuerRecoveryOperation.RemoveKeyByRecovery}

\* What is remembered of the key added last when a transaction takes
\* effect: an addition that changes the key list is remembered with the
\* list getIssuerPublicKeys gave before it; the removal of the key added
\* last is marked; any other change of the key list forgets the addition.
KeysBeforeApply(before, keys, script, keysRead) ==
    CASE KeysApply(keys, script) = keys -> before
      [] script.operation = IssuerRecoveryOperation.AddKeyByRecovery ->
           [key |-> KeyHex(script.args[1]), keys |-> keysRead, removed |-> FALSE]
      [] before.key = KeyHex(script.args[1]) /\ ~before.removed ->
           [before EXCEPT !.removed = TRUE]
      [] OTHER -> NoKeyAdded

\* A block is produced: one pending Issuer transaction takes effect.
ConfirmIssuer ==
    \E t \in mempool :
        /\ t.script.scriptHash = IssuerScriptHash
        /\ mempool' = mempool \ {t}
        /\ claimReg' = ClaimsApply(claimReg, t.script)
        /\ schemaReg' = SchemasApply(schemaReg, t.script)
        /\ pubKeys' = KeysApply(pubKeys, t.script)
        /\ keysBefore' = KeysBeforeApply(keysBefore, pubKeys, t.script,
                                         getIssuerPublicKeys("ok").ret)
        /\ lastConfirmed' = IF RecordedOnConfirm(t.script) THEN t ELSE lastConfirmed
        /\ UNCHANGED <<trustReg, last, seen, issuing>>

ValidateClaimCall ==
    \E in \in ValidateInputs :
        /\ last' = Call("validateClaim", <<in.claim, in.cv, in.now>>, in.mode,
                        validateClaim(in.claim, in.cv, in.now, in.mode))
        /\ UNCHANGED <<trustReg, claimReg, schemaReg, pubKeys, mempool, lastConfirmed, seen, issuing, keysBefore>>

-----------------------------------------------------------------------------
(* Actions of the offline checks *)

PrivateKeys == {IssuerPrivateKey, OtherPrivateKey}
PublicKeys == {IssuerPublicKey, OtherPublicKey}

\* The signatures a claim comes with: the issuer's and another key's, the
\* issuer's with a byte of either part altered, bytes that are no signature,
\* and none.
SignatureCases(claim) ==
    {sign(getClaimHash(claim), k) : k \in PrivateKeys}
    \cup {Flip(sign(getClaimHash(claim), IssuerPrivateKey), i) : i \in {1, 2}}
    \cup {TruncatedSignature, NoSignature}

\* The claims verifyOffline is given.
VerifyInputs ==
    UNION {{[c EXCEPT !.signature = sig] : sig \in SignatureCases(c)} :
              c \in {createClaim(id, "KYC", attrs, "undefined", "undefined") :
                         id \in ClaimIds,
                         attrs \in {ConformingAttributes, MissingAttribute}}}

\* The claims getClaimHash is given: every attribute list under both
\* schema names, as created and as issued (signed, with issuer DID,
\* transaction and end of validity).
HashInputs ==
    UNION {{c, [SignedBy(c, IssuerPrivateKey) EXCEPT
                    !.issuerDID = getIssuerDID(NetPriv, IssuerScriptHash),
                    !.tx = "txhash", !.validTo = "t2"]} :
              c \in {createClaim(id, schemaName, attrs, "undefined", "undefined") :
                         id \in ClaimIds, schemaName \in SchemaNames,
                         attrs \in {ConformingAttributes, ReorderedAttributes,
                                    MissingAttribute, ExtraAttribute}}}

\* The claims validateAttributes is given.
AttributeInputs ==
    {createClaim("C1", schemaName, attrs, "undefined", "undefined") :
        schemaName \in SchemaNames,
        attrs \in {ConformingAttributes, ReorderedAttributes,
                   MissingAttribute, ExtraAttribute}}

BoolString(b) == IF b THEN "true" ELSE "false"

VerifyOfflineCall ==
    \E claim \in VerifyInputs, issuerPublicKey \in PublicKeys :
        /\ last' = Call("verifyOffline", <<claim, issuerPublicKey>>, "none",
                        Returned(BoolString(verifyOffline(claim, issuerPublicKey))))
        /\ UNCHANGED <<trustReg, claimReg, schemaReg, pubKeys, mempool, lastConfirmed, seen, issuing, keysBefore>>

GetClaimHashCall ==
    \E claim \in HashInputs :
        /\ last' = Call("getClaimHash", <<claim>>, "none", Returned(getClaimHash(claim)))
        /\ UNCHANGED <<trustReg, claimReg, schemaReg, pubKeys, mempool, lastConfirmed, seen, issuing, keysBefore>>

ValidateAttributesCall ==
    \E claim \in AttributeInputs, schema \in SchemaObjects :
        /\ last' = Call("validateAttributes", <<claim, schema>>, "none",
                        Returned(validateAttributes(claim, schema)))
        /\ UNCHANGED <<trustReg, claimReg, schemaReg, pubKeys, mempool, lastConfirmed, seen, issuing, keysBefore>>

-----------------------------------------------------------------------------
(* issueClaim, in its steps *)

\* issueClaim up to its call of injectClaim: the schema is read, the claim
\* checked against it and signed.  A failure ends the call.
IssueClaimSign ==
    \E id \in ClaimIds, mode \in NodeModes :
        /\ issuing[id].pc = "created"
        /\ LET checked == validateClaimStructure(issuing[id].claim, mode)
           IN  IF checked.thrown # "none"
               THEN /\ last' = Call("issueClaim", <<id>>, mode, checked)
                    /\ UNCHANGED issuing
               ELSE /\ issuing' = [issuing EXCEPT ![id] =
                                      Issuing("signed", claimToInject(@.claim, IssuerPrivateKey))]
                    /\ UNCHANGED last
        /\ UNCHANGED <<trustReg, claimReg, schemaReg, pubKeys, mempool, lastConfirmed, seen,
                       keysBefore>>

\* issueClaim from its call of injectClaim on: the transaction is sent and
\* its hash put on the claim, which is returned.
IssueClaimInject ==
    \E id \in ClaimIds, st \in InvokeStates, ok \in BOOLEAN :
        /\ issuing[id].pc = "signed"
        /\ LET out == injectClaim(issuing[id].claim.id, st, ok)
           IN  /\ out.accepted => Cardinality(mempool) < MaxPending
               /\ mempool' = Broadcast(mempool, out, injectClaimScript(id), <<id>>)
               /\ IF out.thrown # "none"
                  THEN /\ issuing' = [issuing EXCEPT ![id].pc = "created"]
                       /\ last' = Call("issueClaim", <<id>>, st, out)
                  ELSE /\ issuing' = [issuing EXCEPT ![id] =
                                         Issuing("issued", issuedClaim(@.claim, out.ret))]
                       /\ last' = Call("issueClaim", <<id>>, st,
                                       Returned(issuedClaim(issuing[id].claim, out.ret)))
        /\ UNCHANGED <<trustReg, claimReg, schemaReg, pubKeys, lastConfirmed, seen, keysBefore>>

-----------------------------------------------------------------------------
(* Specifications *)

Init ==
    /\ trustReg = <<>>
    /\ claimReg = [id \in ClaimIds |-> "Nonexistent"]
    /\ schemaReg = <<>>
    /\ pubKeys = <<IssuerPublicKey>>
    /\ mempool = {}
    /\ lastConfirmed = NoTx
    /\ last = NoCall
    /\ seen = [id \in ClaimIds |-> "none"]
    /\ issuing = NotIssuing
    /\ keysBefore = NoKeyAdded

NextRoT ==
    \/ IsTrustedCall
    \/ RegisterIssuerCall
    \/ DeactivateIssuerCall
    \/ ConfirmRoT

SpecRoT == Init /\ [][NextRoT]_vars

\* The Root-of-Trust registries the Issuer scenario runs against.
TrustRegSamples ==
    {<<>>,
     isTrustedParams(getIssuerDID(NetPriv, IssuerScriptHash), "KYC") :> "true",
     isTrustedParams(getIssuerDID(NetPriv, IssuerScriptHash), "KYC") :> "false"}

InitIssuer ==
    /\ trustReg \in TrustRegSamples
    /\ claimReg = [id \in ClaimIds |-> "Nonexistent"]
    /\ schemaReg = <<>>
    /\ pubKeys = <<IssuerPublicKey>>
    /\ mempool = {}
    /\ lastConfirmed = NoTx
    /\ last = NoCall
    /\ seen = [id \in ClaimIds |-> "none"]
    /\ issuing = NotIssuing
    /\ keysBefore = NoKeyAdded

NextIssuer ==
    \/ IsValidClaimCall
    \/ InjectClaimCall
    \/ RevokeClaimCall
    \/ IsTrustedCall
    \/ ConfirmIssuer

SpecIssuer == InitIssuer /\ [][NextIssuer]_vars

NextSchema ==
    \/ RegisterSchemaCall
    \/ GetSchemaDetailsCall
    \/ ConfirmIssuer

SpecSchema == Init /\ [][NextSchema]_vars

\* The DIDs of the clients, over a ledger whose trust registry changes.
NextDID ==
    \/ GetDIDCall
    \/ GetIssuerDIDCall
    \/ RegisterIssuerCall
    \/ DeactivateIssuerCall
    \/ ConfirmRoT

SpecDID == Init /\ [][NextDID]_vars

\* The offline checks, over a ledger on which claims are injected and
\* revoked and whose Root of Trust trusts the issuer, has deactivated it or
\* has never registered it.
NextOffline ==
    \/ VerifyOfflineCall
    \/ GetClaimHashCall
    \/ ValidateAttributesCall
    \/ InjectClaimCall
    \/ RevokeClaimCall
    \/ ConfirmIssuer

SpecOffline == InitIssuer /\ [][NextOffline]_vars

\* The schema the validated claims are issued under is registered.
KYCSchema == [name |-> "KYC", attributes |-> <<"firstName", "age">>, revokable |-> "true"]

\* Callers issue the claims they hold; the schema KYC is registered.
InitIssue ==
    /\ trustReg = <<>>
    /\ claimReg = [id \in ClaimIds |-> "Nonexistent"]
    /\ schemaReg = ("KYC" :> JSONstringify(KYCSchema))
    /\ pubKeys = <<IssuerPublicKey>>
    /\ mempool = {}
    /\ lastConfirmed = NoTx
    /\ last = NoCall
    /\ seen = [id \in ClaimIds |-> "none"]
    /\ \E objects \in [ClaimIds -> UNION {IssueInputs(id) : id \in ClaimIds}] :
           /\ \A id \in ClaimIds : objects[id] \in IssueInputs(id)
           /\ issuing = [id \in ClaimIds |-> Issuing("created", objects[id])]
    /\ keysBefore = NoKeyAdded

NextIssue ==
    \/ IssueClaimSign
    \/ IssueClaimInject
    \/ IsValidClaimCall
    \/ ConfirmIssuer

SpecIssue == InitIssue /\ [][NextIssue]_vars

\* The issuer's keys are added and removed by recovery and read.
NextKeys ==
    \/ AddKeyByRecoveryCall
    \/ RemoveKeyByRecoveryCall
    \/ GetIssuerPublicKeysCall
    \/ ConfirmIssuer

SpecKeys == Init /\ [][NextKeys]_vars

\* The remote reads of both clients, over a ledger whose schema registry and
\* trust registry change.
NextReads ==
    \/ GetNameCall
    \/ GetIssuerNameCall
    \/ GetAdminListCall
    \/ GetIssuerPublicKeysCall
    \/ GetSchemaDetailsCall
    \/ IsTrustedCall
    \/ RegisterSchemaCall
    \/ ConfirmIssuer

SpecReads == InitIssuer /\ [][NextReads]_vars

InitVerify ==
    /\ trustReg = <<>>
    /\ claimReg = [id \in ClaimIds |-> "Nonexistent"]
    /\ schemaReg = ("KYC" :> JSONstringify(KYCSchema))
    /\ pubKeys = <<IssuerPublicKey>>
    /\ mempool = {}
    /\ lastConfirmed = NoTx
    /\ last = NoCall
    /\ seen = [id \in ClaimIds |-> "none"]
    /\ issuing = NotIssuing
    /\ keysBefore = NoKeyAdded

NextVerify ==
    \/ ValidateClaimCall
    \/ InjectClaimCall
    \/ RevokeClaimCall
    \/ ConfirmIssuer

SpecVerify == InitVerify /\ [][NextVerify]_vars

-----------------------------------------------------------------------------
(* Claims about the Root of Trust, checked under SpecRoT *)

\* The pair (issuerDID, schemaName) of the call that sent the transaction.
OriginOf(t) == t.origin

\* C1: once registerIssuer(issuerDID, schemaName) has taken effect,
\* isTrusted(issuerDID, schemaName) answers true, and once deactivateIssuer
\* for the same pair has taken effect it answers false; and in every state
\* an isTrusted call hands back what the registry holds in that state.
C1_TrustFollowsRegistry ==
    /\ \A did \in IssuerDIDs, s \in SchemaNames :
           OriginOf(lastConfirmed) = <<did, s>> =>
               isTrusted(did, s, "ok") =
                   Returned(IF lastConfirmed.script.operation =
                                   RootOfTrustOperation.RegisterIssuer
                            THEN "true" ELSE "false")
    /\ \A did \in IssuerDIDs, s \in SchemaNames :
           isTrusted(did, s, "ok") = Returned(RoTStored(trustReg, <<trimedDID(did), s>>))

\* C1 witness: a pair was registered, then deactivated, and isTrusted for
\* it has answered false.
C1_Witness ==
    /\ lastConfirmed.script.operation = RootOfTrustOperation.DeactivateIssuer
    /\ lastConfirmed.script.args \in DOMAIN trustReg
    /\ last.op = "isTrusted"
    /\ last.args = OriginOf(lastConfirmed)
    /\ last.thrown = "none"
    /\ last.ret = "false"

\* C2: for a pair the Root of Trust never registered, isTrusted returns
\* false as a normal result whenever the contract answers; the missing
\* registration is not reported as an error.
C2_UnregisteredIsFalse ==
    \A did \in IssuerDIDs, s \in SchemaNames :
        <<trimedDID(did), s>> \notin DOMAIN trustReg =>
            isTrusted(did, s, "ok") = Returned("false")

\* C2 witness: isTrusted has answered false for a pair that is not in the
\* registry while another pair is registered and trusted.
C2_Witness ==
    /\ last.op = "isTrusted"
    /\ last.mode = "ok"
    /\ last.thrown = "none"
    /\ last.ret = "false"
    /\ <<trimedDID(last.args[1]), last.args[2]>> \notin DOMAIN trustReg
    /\ \E k \in DOMAIN trustReg : trustReg[k] = "true"

-----------------------------------------------------------------------------
(* Claims about the Issuer contract, checked under SpecIssuer *)

\* C3: once isValidClaim(id) has answered false after having answered true,
\* it never answers true for that id again, whatever the client does.
C3_RevocationTerminal ==
    \A id \in ClaimIds : seen[id] # "trueAgain"

\* C3 witness: isValidClaim(id) went from true to false, after that a new
\* injectClaim(id) was broadcast and has been taken into a block, and
\* another id is valid.
C3_Witness ==
    \E id \in ClaimIds :
        /\ seen[id] = "falseAfterTrue"
        /\ claimReg[id] = "Revoked"
        /\ last.op = "injectClaim"
        /\ last.args = <<id>>
        /\ last.ret = "txhash"
        /\ mempool = {}
        /\ \E other \in ClaimIds \ {id} : claimReg[other] = "Valid"

\* C6: isValidClaim(claimId) answers true iff the id is recorded and not
\* revoked; for an id never injected and for a revoked id it answers the
\* same false.
C6_ValidIffInjectedNotRevoked ==
    /\ \A id \in ClaimIds :
           isValidClaim(id, "ok") =
               Returned(IF claimReg[id] = "Valid" THEN "true" ELSE "false")
    /\ \A a, b \in ClaimIds :
           claimReg[a] = "Nonexistent" /\ claimReg[b] = "Revoked" =>
               isValidClaim(a, "ok") = isValidClaim(b, "ok")

\* C6 witness: one id was never injected, another is revoked, and
\* isValidClaim has answered false for the revoked one.
C6_Witness ==
    \E a, b \in ClaimIds :
        /\ claimReg[a] = "Nonexistent"
        /\ claimReg[b] = "Revoked"
        /\ last.op = "isValidClaim"
        /\ last.args = <<b>>
        /\ last.mode = "ok"
        /\ last.ret = "false"

\* C10: when the invocation behind isValidClaim or isTrusted fails, the
\* call throws and does not return false; a returned false comes from an
\* invocation the contract answered.
C10_FaultIsNotFalse ==
    /\ \A mode \in NodeModes \ {"ok"} :
           /\ \A id \in ClaimIds : isValidClaim(id, mode).thrown # "none"
           /\ \A did \in IssuerDIDs, s \in SchemaNames :
                  isTrusted(did, s, mode).thrown # "none"
    /\ last.op \in {"isValidClaim", "isTrusted"} /\ last.mode # "ok" =>
           last.thrown # "none" /\ last.ret # "false"

\* C10 witness: isValidClaim was called for a valid claim, the invocation
\* faulted, and the call threw.
C10_Witness ==
    /\ last.op = "isValidClaim"
    /\ last.mode \in {"noStack", "emptyStack"}
    /\ claimReg[last.args[1]] = "Valid"
    /\ last.thrown \in {"SeraphIDError", "TypeError"}

-----------------------------------------------------------------------------
(* Claims about the lifecycle validation, checked under SpecVerify *)

\* The calls of validateClaim that the node answers, for a claim of the
\* registered schema.
AnsweredInputs == {in \in ValidateInputs : in.mode = "ok" /\ in.claim.schema = "KYC"}

ValidateOf(in) == validateClaim(in.claim, in.cv, in.now, in.mode)

SignatureChecks(claim) == \E i \in DOMAIN pubKeys : verifyOffline(claim, pubKeys[i])

AttributesCheck(claim) == validateAttributes(claim, KYCSchema).success = "true"

\* The claim of the last validateClaim call.
LastClaim == last.args[1]

\* C4: a claim that conforms to its registered schema and is signed by the
\* issuer validates while its id is recorded and not revoked, and does not
\* validate once the revocation of its id has taken effect.
C4_ValidUntilRevoked ==
    \A id \in ClaimIds :
        LET out == validateClaim(ConformingClaim(id), "none", "t2", "ok")
        IN  /\ claimReg[id] = "Valid" => out = Returned("true")
            /\ claimReg[id] = "Revoked" => out.thrown = "none" /\ out.ret = "false"

\* C4 witness: the claim's id is revoked and validateClaim of the conforming
\* claim has returned false.
C4_Witness ==
    /\ last.op = "validateClaim"
    /\ LastClaim = ConformingClaim(LastClaim.id)
    /\ claimReg[LastClaim.id] = "Revoked"
    /\ last.mode = "ok"
    /\ last.ret = "false"
    /\ last.error = "Revoked"

\* C5: isValidClaim and validateClaim answer true only for an id whose
\* injection the ledger has recorded; while the injection is not recorded,
\* also when its transaction is broadcast and pending, they answer false.
C5_ValidOnlyAfterConfirmation ==
    /\ \A id \in ClaimIds :
           claimReg[id] = "Nonexistent" => isValidClaim(id, "ok") = Returned("false")
    /\ \A in \in AnsweredInputs :
           claimReg[in.claim.id] = "Nonexistent" => ValidateOf(in).ret = "false"
    /\ last.op = "validateClaim" /\ last.ret = "true" => claimReg[LastClaim.id] # "Nonexistent"

\* C5 witness: injectClaim(id) has been broadcast and is pending, and a
\* validateClaim of the conforming claim made after it returned false.
C5_Witness ==
    /\ last.op = "validateClaim"
    /\ LastClaim = ConformingClaim(LastClaim.id)
    /\ claimReg[LastClaim.id] = "Nonexistent"
    /\ [script |-> injectClaimScript(LastClaim.id), origin |-> <<LastClaim.id>>] \in mempool
    /\ last.mode = "ok"
    /\ last.ret = "false"

\* C7: without a predicate (or with one that holds) validateClaim returns
\* true iff the signature verifies against the issuer's key, the attributes
\* validate against the schema, the claim id is valid on the ledger and now
\* lies in the validity window; otherwise it returns false.
C7_TrueIffFourChecks ==
    \A in \in AnsweredInputs :
        in.cv \in {"none", "true"} =>
            [thrown |-> ValidateOf(in).thrown, ret |-> ValidateOf(in).ret] =
                [thrown |-> "none",
                 ret |-> IF /\ SignatureChecks(in.claim)
                            /\ AttributesCheck(in.claim)
                            /\ claimReg[in.claim.id] = "Valid"
                            /\ inValidityWindow(in.claim, in.now)
                         THEN "true" ELSE "false"]

\* C7 witness: validateClaim returned false for a claim whose attributes
\* do not match the schema while its signature, its id and its window pass.
C7_Witness ==
    /\ last.op = "validateClaim"
    /\ last.mode = "ok"
    /\ last.ret = "false"
    /\ last.error = "SchemaMismatch"
    /\ SignatureChecks(LastClaim)
    /\ claimReg[LastClaim.id] = "Valid"
    /\ inValidityWindow(LastClaim, last.args[3])

\* The other checks of a call pass: signature, attributes, claim id, predicate.
OthersPass(in) ==
    /\ SignatureChecks(in.claim)
    /\ AttributesCheck(in.claim)
    /\ claimReg[in.claim.id] = "Valid"
    /\ in.cv \in {"none", "true"}

\* C8: with the other checks passing, validateClaim returns false when
\* validFrom is present and later than now or validTo is present and earlier
\* than now, and true otherwise; a missing bound rejects nothing.
C8_ValidityWindow ==
    \A in \in AnsweredInputs :
        OthersPass(in) =>
            ValidateOf(in).ret =
                IF \/ in.claim.validFrom # "undefined"
                      /\ TimeOrd[in.now] < TimeOrd[in.claim.validFrom]
                   \/ in.claim.validTo # "undefined"
                      /\ TimeOrd[in.claim.validTo] < TimeOrd[in.now]
                THEN "false" ELSE "true"

\* C8 witness: a claim whose validTo is past failed the validation with
\* every other check passing.
C8_Witness ==
    /\ last.op = "validateClaim"
    /\ last.mode = "ok"
    /\ last.ret = "false"
    /\ last.error = "OutOfDateRange"
    /\ LastClaim.validTo # "undefined"
    /\ TimeOrd[LastClaim.validTo] < TimeOrd[last.args[3]]
    /\ SignatureChecks(LastClaim)
    /\ AttributesCheck(LastClaim)
    /\ claimReg[LastClaim.id] = "Valid"

\* C9: a predicate that returns false makes validateClaim false; one that
\* returns true leaves the result of the four checks; one that throws makes
\* validateClaim return false, with CustomValidationError when the four
\* checks pass, and nothing is thrown to the caller.
C9_CustomPredicate ==
    \A in \in AnsweredInputs :
        LET out == ValidateOf(in)
            plain == validateClaim(in.claim, "none", in.now, in.mode)
        IN  /\ in.cv = "false" => out.thrown = "none" /\ out.ret = "false"
            /\ in.cv = "true" => out = plain
            /\ in.cv = "throws" =>
                   /\ out.thrown = "none"
                   /\ out.ret = "false"
                   /\ plain.ret = "true" => out.error = "CustomValidationError"

\* C9 witness: the four checks pass, the predicate threw, and validateClaim
\* returned false with CustomValidationError.
C9_Witness ==
    /\ last.op = "validateClaim"
    /\ last.args[2] = "throws"
    /\ last.thrown = "none"
    /\ last.ret = "false"
    /\ last.error = "CustomValidationError"
    /\ claimReg[LastClaim.id] = "Valid"

-----------------------------------------------------------------------------
(* Claims about the remote reads, checked under SpecReads *)

RemoteReads ==
    {"getName", "getIssuerName", "getAdminList", "getIssuerPublicKeys",
     "getSchemaDetails", "isTrusted"}

\* The invocation result carries a failure: an exception and no result.
FailedInvocation(call) ==
    /\ call.op \in RemoteReads
    /\ call.mode \in {"noStack", "emptyStack"}

\* The node's response to the invocation of a read that failed.
RawResponse(call) == InvokeResult(call.mode, UndefinedItem)

\* C11: a remote read whose invocation failed throws a SeraphIDError whose
\* message is the exception string and whose rpcResult is the raw response;
\* no other kind of error comes out of a failed invocation.
C11_FailedReadThrowsSeraphIDError ==
    FailedInvocation(last) =>
        /\ last.thrown = "SeraphIDError"
        /\ last.error = RawResponse(last).exception
        /\ last.rpcResult = RawResponse(last)

\* A read of a string array whose invocation failed with no stack in the
\* response has thrown a TypeError.
C11_Witness ==
    /\ last.op \in {"getAdminList", "getIssuerPublicKeys"}
    /\ last.mode = "noStack"
    /\ last.thrown = "TypeError"

\* C11, what the code does: a read of a string, of a schema or of the trust
\* flag throws the SeraphIDError when the response has no stack; a read of a
\* string array throws a TypeError, as does every read when the stack is
\* there and empty.
C11_FailedReadThrows ==
    FailedInvocation(last) =>
        IF last.mode = "noStack" /\ last.op \notin {"getAdminList", "getIssuerPublicKeys"}
        THEN /\ last.thrown = "SeraphIDError"
             /\ last.error = RawResponse(last).exception
             /\ last.rpcResult = RawResponse(last)
        ELSE last.thrown = "TypeError"

-----------------------------------------------------------------------------
(* Claims about the issuer parameter, checked under SpecRoT *)

\* The positions of the colons of a DID.
Colons(did) == {i \in DOMAIN did : did[i] = ":"}

\* The identity address of did:<method>:<network>:<identity-address>: what
\* follows the third colon.
IdentityAddress(did) ==
    LET third == CHOOSE i \in Colons(did) : Cardinality({j \in Colons(did) : j < i}) = 2
    IN  SubSeq(did, third + 1, Len(did))

\* What follows the method of a DID: colon, network, colon, identity address.
AfterMethod(did) ==
    LET second == CHOOSE i \in Colons(did) : Cardinality({j \in Colons(did) : j < i}) = 1
    IN  SubSeq(did, second, Len(did))

\* The issuer parameters the three operations have sent for the issuer DID
\* of the last call and of the pending transactions.
SentIssuerParams ==
    {<<t.origin[1], t.script.args[1]>> : t \in mempool}
    \cup (IF last.op = "isTrusted"
          THEN {<<last.args[1], isTrustedParams(last.args[1], last.args[2])[1]>>}
          ELSE {})

\* C12: the issuer parameter isTrusted, registerIssuer and deactivateIssuer
\* send to the contract is exactly the identity address of the issuer DID.
C12_SendsIdentityAddress ==
    \A p \in SentIssuerParams : p[2] = IdentityAddress(p[1])

\* C12, what the code does: the issuer parameter is the DID without its
\* first nine characters, which leaves the colon, the network and the colon
\* in front of the identity address.
C12_SendsNetworkAndAddress ==
    \A p \in SentIssuerParams :
        /\ p[2] = AfterMethod(p[1])
        /\ p[2] # IdentityAddress(p[1])
        /\ Len(p[2]) = Len(IdentityAddress(p[1])) + Len(NetPriv) + 2

\* isTrusted has been called while a transaction of registerIssuer or
\* deactivateIssuer is pending.
C12_Witness ==
    /\ last.op = "isTrusted"
    /\ \E t \in mempool :
           t.script.operation \in {RootOfTrustOperation.RegisterIssuer,
                                   RootOfTrustOperation.DeactivateIssuer}

-----------------------------------------------------------------------------
(* Claims about the DIDs of the clients, checked under SpecDID *)

\* The k-th of the segments the colons divide a DID into.
Segment(did, k) ==
    LET bounds == Colons(did) \cup {0, Len(did) + 1}
        from == CHOOSE i \in bounds : Cardinality({j \in bounds : j < i}) = k - 1
        to == CHOOSE i \in bounds : Cardinality({j \in bounds : j < i}) = k
    IN  SubSeq(did, from + 1, to - 1)

\* C13: getDID and getIssuerDID hand back did:neoid:<network>:<scriptHash>
\* for the network and the script hash the client was constructed with,
\* whatever the ledger holds, and the same string when asked again.
C13_DIDFormat ==
    last.op \in {"getDID", "getIssuerDID"} =>
        LET network == last.args[1]
            scriptHash == last.args[2]
        IN  /\ last.thrown = "none"
            /\ Cardinality(Colons(last.ret)) = 3
            /\ Segment(last.ret, 1) = <<"d", "i", "d">>
            /\ Segment(last.ret, 2) = <<"n", "e", "o", "i", "d">>
            /\ Segment(last.ret, 3) = network
            /\ Segment(last.ret, 4) = scriptHash
            /\ getDID(network, scriptHash) = last.ret
            /\ getIssuerDID(network, scriptHash) = last.ret

\* getDID has answered for the main network while the trust registry holds
\* an entry and a transaction is pending.
C13_Witness ==
    /\ last.op = "getDID"
    /\ last.args[1] = NetMain
    /\ DOMAIN trustReg # {}
    /\ mempool # {}

-----------------------------------------------------------------------------
(* Claims about the offline checks, checked under SpecOffline *)

\* The claim's signature is the one a key pair made over the claim's hash.
SignatureOf(claim, privateKey) == claim.signature = sign(getClaimHash(claim), privateKey)

\* The claim's signature is a signature with a byte altered, or no signature.
AlteredSignature(claim) ==
    \/ \E k \in PrivateKeys, i \in {1, 2} :
           claim.signature = Flip(sign(getClaimHash(claim), k), i)
    \/ claim.signature \in {TruncatedSignature, NoSignature}

SameSignableContent(c, d) ==
    /\ c.id = d.id
    /\ c.ownerDID = d.ownerDID
    /\ c.schema = d.schema
    /\ {c.attributes[i] : i \in DOMAIN c.attributes}
           = {d.attributes[i] : i \in DOMAIN d.attributes}

\* C15: every claim that agrees with the hashed one on id, ownerDID, schema
\* and the attribute mapping has the hash that was computed, whatever the
\* order of its attributes, its signature, tx, issuer DID and validity.
C15_HashOfSignableFields ==
    last.op = "getClaimHash" =>
        /\ last.thrown = "none"
        /\ \A d \in HashInputs :
               SameSignableContent(last.args[1], d) => getClaimHash(d) = last.ret

\* The hash of an unsigned claim has been computed, and a claim with the
\* attributes in another order, a signature and a tx has the same content.
C15_Witness ==
    /\ last.op = "getClaimHash"
    /\ last.args[1].signature = NoSignature
    /\ \E d \in HashInputs :
           /\ SameSignableContent(last.args[1], d)
           /\ d.attributes # last.args[1].attributes
           /\ d.signature # NoSignature
           /\ d.tx # last.args[1].tx

AttributeNames(claim) == {claim.attributes[i][1] : i \in DOMAIN claim.attributes}

\* C16: validateAttributes passes exactly when the claim names the schema,
\* misses none of the schema's attributes and has none beside them; the
\* order of the claim's attributes makes no difference, and a mismatch is a
\* result, SchemaMismatch, not an exception.
C16_ExactAttributeSet ==
    last.op = "validateAttributes" =>
        LET claim == last.args[1]
            schema == last.args[2]
            missing == \E i \in DOMAIN schema.attributes :
                          schema.attributes[i] \notin AttributeNames(claim)
            extra == \E a \in AttributeNames(claim) :
                        \A i \in DOMAIN schema.attributes : schema.attributes[i] # a
        IN  /\ last.thrown = "none"
            /\ last.ret.success = "true"
                  <=> (claim.schema = schema.name /\ ~missing /\ ~extra)
            /\ last.ret.success # "true" => last.ret = Failed("SchemaMismatch")
            /\ \A d \in AttributeInputs :
                   (d.schema = claim.schema /\ AttributeNames(d) = AttributeNames(claim))
                       => validateAttributes(d, schema) = last.ret

\* validateAttributes has reported a mismatch for a claim of the schema's
\* name with one attribute too many.
C16_Witness ==
    /\ last.op = "validateAttributes"
    /\ last.args[1].schema = last.args[2].name
    /\ last.args[1].attributes = ExtraAttribute
    /\ last.args[2].attributes = <<"firstName", "age">>
    /\ last.ret = Failed("SchemaMismatch")

\* The issuer of the claims, as the Root of Trust is asked about it.
IssuerTrusted ==
    RoTStored(trustReg, isTrustedParams(getIssuerDID(NetPriv, IssuerScriptHash), "KYC")) = "true"

-----------------------------------------------------------------------------
(* Claims about issueClaim, checked under SpecIssue *)

\* The claim id is on its way to the ledger or recorded on it.
Injected(id) ==
    \/ claimReg[id] # "Nonexistent"
    \/ \E t \in mempool : t.script = injectClaimScript(id)

\* C18: a claim issueClaim returns conforms to the registered schema and has
\* its signature, made by the issuer over its hash, and its tx; and at no
\* time is a claim id injected, pending or recorded, while the claim object
\* is unsigned.
C18_SignedBeforeInjected ==
    /\ last.op = "issueClaim" /\ last.thrown = "none" =>
           /\ SignatureOf(last.ret, IssuerPrivateKey)
           /\ last.ret.tx = "txhash"
           /\ validateAttributes(last.ret, KYCSchema) = Passed
           /\ Injected(last.ret.id)
    /\ \A id \in ClaimIds :
           Injected(id) => SignatureOf(issuing[id].claim, IssuerPrivateKey)

\* issueClaim has returned a claim, whose id is recorded on the ledger,
\* while another claim is signed and not yet injected.
C18_Witness ==
    /\ last.op = "issueClaim"
    /\ last.thrown = "none"
    /\ claimReg[last.ret.id] = "Valid"
    /\ \E id \in ClaimIds : issuing[id].pc = "signed" /\ ~Injected(id)

-----------------------------------------------------------------------------
(* Claims about the schema registry, checked under SpecSchema *)

\* The schema a transaction of registerSchema carries.
SchemaOf(t) == JSONparse(t.script.args[2])

\* A step keeps what getSchemaDetails gives for every registered name, and
\* a name that becomes registered gives the schema of the registerSchema
\* transaction that took effect.
SchemaStep ==
    \A name \in SchemaNames :
        /\ name \in DOMAIN schemaReg =>
               getSchemaDetails(name, "ok")' = getSchemaDetails(name, "ok")
        /\ (name \notin DOMAIN schemaReg /\ name \in DOMAIN schemaReg') =>
               \E t \in mempool :
                   /\ t \notin mempool'
                   /\ \E schema \in SchemaObjects :
                          /\ schema.name = name
                          /\ t.script = registerSchemaScript(schema)
                          /\ getSchemaDetails(name, "ok")' = Returned(schema)

\* C19: once a schema is registered, getSchemaDetails of its name gives its
\* name, attributes and revokable flag in every later state, also after a
\* registerSchema of the same name and another content has been confirmed;
\* what getSchemaDetails answered before is what it answers now.
C19_SchemaImmutable ==
    /\ [][SchemaStep]_vars
    /\ [](last.op = "getSchemaDetails" /\ last.thrown = "none" =>
             /\ last.ret.name = last.args[1]
             /\ getSchemaDetails(last.args[1], "ok") = Returned(last.ret))

\* A registerSchema of a registered name with another content has been
\* confirmed, and getSchemaDetails has answered after it.
C19_Witness ==
    /\ lastConfirmed.script.operation = IssuerOperation.RegisterSchema
    /\ last.op = "getSchemaDetails"
    /\ last.thrown = "none"
    /\ last.args[1] = lastConfirmed.script.args[1]
    /\ last.ret # SchemaOf(lastConfirmed)
    /\ getSchemaDetails(last.args[1], "ok") = Returned(last.ret)

-----------------------------------------------------------------------------
(* Claims about the issuer's keys, checked under SpecKeys *)

-----------------------------------------------------------------------------
(* Queries and dry runs leave the ledger alone *)

\* The ledger the queries and dry runs meet: the issuer is not on the
\* Root-of-Trust registry, trusted or deactivated, and the schema KYC is
\* registered or not.
InitDryRun ==
    /\ trustReg \in TrustRegSamples
    /\ claimReg = [id \in ClaimIds |-> "Nonexistent"]
    /\ \/ schemaReg = <<>>
       \/ schemaReg = ("KYC" :> JSONstringify(KYCSchema))
    /\ pubKeys = <<IssuerPublicKey>>
    /\ mempool = {}
    /\ lastConfirmed = NoTx
    /\ last = NoCall
    /\ seen = [id \in ClaimIds |-> "none"]
    /\ issuing = NotIssuing
    /\ keysBefore = NoKeyAdded

NextDryRun ==
    \/ IsTrustedCall
    \/ IsValidClaimCall
    \/ GetSchemaDetailsCall
    \/ GetNameCall
    \/ RegisterSchemaTestCall
    \/ InjectClaimTestCall
    \/ RevokeClaimTestCall
    \/ RegisterIssuerTestCall
    \/ DeactivateIssuerTestCall
    \/ InjectClaimCall
    \/ ConfirmIssuer

SpecDryRun == InitDryRun /\ [][NextDryRun]_vars

QueryOps ==
    {"isTrusted", "isValidClaim", "getSchemaDetails", "getName",
     "registerSchemaTest", "injectClaimTest", "revokeClaimTest",
     "registerIssuerTest", "deactivateIssuerTest"}

\* A block is produced: a pending transaction leaves the pool.
BlockProduced == mempool' # mempool /\ mempool' \subseteq mempool

\* The step is a call of one of the given operations: it is recorded as the
\* last call, and the step is not a block being produced after it.
CallOf(ops) == last'.op \in ops /\ ~BlockProduced

\* C21: a query or a dry run (isTrusted, isValidClaim, getSchemaDetails,
\* getName, registerSchemaTest, injectClaimTest, revokeClaimTest,
\* registerIssuerTest, deactivateIssuerTest) sends no transaction and leaves
\* the schema registry, the claim registry and the trust registry as they
\* were, whether it returns or throws.
C21_QueriesLeaveLedger ==
    [][CallOf(QueryOps) =>
          /\ mempool' = mempool
          /\ schemaReg' = schemaReg
          /\ claimReg' = claimReg
          /\ trustReg' = trustReg]_vars

\* A dry run of an injection came back without an error, and the claim is
\* neither recorded nor on its way.
C21_Witness ==
    /\ last.op = "injectClaimTest"
    /\ last.thrown = "none"
    /\ claimReg[last.args[1]] = "Nonexistent"
    /\ mempool = {}
    /\ \E id \in ClaimIds : claimReg[id] = "Valid"


-----------------------------------------------------------------------------
(* sendSignedTransaction: dry run, broadcast, transaction hash *)

\* The five operations are called in any order; the blocks that are produced
\* take the transactions of the Root of Trust.
NextSend ==
    \/ RegisterSchemaCall
    \/ InjectClaimCall
    \/ RevokeClaimCall
    \/ RegisterIssuerCall
    \/ DeactivateIssuerCall
    \/ ConfirmRoT

SpecSend == Init /\ [][NextSend]_vars

\* The operations that go through sendSignedTransaction, with the contract
\* operation each of them sends.
SendingOps ==
    {"registerSchema", "injectClaim", "revokeClaim", "registerIssuer", "deactivateIssuer"}

SentOperation(op) ==
    CASE op = "registerSchema" -> IssuerOperation.RegisterSchema
      [] op = "injectClaim" -> IssuerOperation.InjectClaim
      [] op = "revokeClaim" -> IssuerOperation.RevokeClaim
      [] op = "registerIssuer" -> RootOfTrustOperation.RegisterIssuer
      [] op = "deactivateIssuer" -> RootOfTrustOperation.DeactivateIssuer

\* The pending transactions of the pool that the call sent.
TxOf(call, pool) ==
    {t \in pool : /\ t.script.operation = SentOperation(call.op)
                  /\ t.origin = call.args}

LedgerUnchanged ==
    /\ mempool' = mempool
    /\ schemaReg' = schemaReg
    /\ claimReg' = claimReg
    /\ trustReg' = trustReg

\* C22: an operation that goes through sendSignedTransaction puts a
\* transaction into the node's pool only when the dry run of its script ended
\* in state HALT; when the dry run ended in another state the operation
\* throws SeraphIDError('invoke script failed'), nothing is signed or sent,
\* and the ledger stays as it was.
C22_BroadcastOnlyAfterHalt ==
    [][CallOf(SendingOps) =>
          /\ mempool' # mempool => last'.mode = "HALT"
          /\ last'.mode # "HALT" =>
                /\ last'.thrown = "SeraphIDError"
                /\ last'.error = "invoke script failed"
                /\ last'.ret = "undefined"
                /\ \A sendRes \in BOOLEAN :
                       ~sendSignedTransaction(NoTx.script, last'.mode, sendRes).sent
                /\ LedgerUnchanged]_vars

\* A deactivation whose dry run faulted threw, and the issuer it names is
\* still trusted with nothing pending.
C22_Witness ==
    /\ last.op = "deactivateIssuer"
    /\ last.mode = "FAULT"
    /\ last.error = "invoke script failed"
    /\ RoTStored(trustReg, isTrustedParams(last.args[1], last.args[2])) = "true"
    /\ mempool = {}

\* C23: an operation that goes through sendSignedTransaction returns a
\* transaction hash only when the node's answer to sendRawTransaction was
\* truthy, so the transaction of a call that returned is in the node's pool;
\* when the answer was falsy the call throws SeraphIDError, returns no hash
\* and leaves the pool as it was.
C23_HashOnlyWhenAccepted ==
    [][CallOf(SendingOps) =>
          /\ last'.ret # "undefined" =>
                /\ last'.thrown = "none"
                /\ last'.ret = "txhash"
                /\ TxOf(last', mempool') # {}
          /\ last'.thrown = "none" => last'.ret = "txhash"
          /\ last'.thrown # "none" =>
                /\ last'.thrown = "SeraphIDError"
                /\ last'.ret = "undefined"
                /\ mempool' = mempool
          /\ (last'.mode = "HALT" /\ last'.thrown # "none") =>
                last'.error = "Transaction failed"]_vars

\* An injection returned a transaction hash and its transaction is pending.
C23_Witness ==
    /\ last.op = "injectClaim"
    /\ last.ret = "txhash"
    /\ TxOf(last, mempool) # {}


-----------------------------------------------------------------------------
(* The registry key of registerIssuer, deactivateIssuer and isTrusted *)

\* The strings the Root of Trust is given as issuer DIDs: a DID, the same
\* with nine other characters in front, the DID of the issuer on another
\* network, and a string of fewer than nine characters.
DIDStrings ==
    {getIssuerDID(NetPriv, IssuerScriptHash),
     <<"D","I","D","-","N","E","O","I","D">> \o <<":">> \o NetPriv \o <<":">> \o IssuerScriptHash,
     getIssuerDID(NetMain, IssuerScriptHash),
     <<"d","i","d",":","n","e","o">>}

IsTrustedOfString ==
    \E did \in DIDStrings, mode \in NodeModes :
        /\ last' = Call("isTrusted", <<did, "KYC">>, mode, isTrusted(did, "KYC", mode))
        /\ UNCHANGED <<trustReg, claimReg, schemaReg, pubKeys, mempool, lastConfirmed, seen, issuing, keysBefore>>

RegisterIssuerOfString ==
    \E did \in DIDStrings, st \in InvokeStates, ok \in BOOLEAN :
        LET out == registerIssuer(did, "KYC", st, ok)
            script == createScript(RotScriptHash, RootOfTrustOperation.RegisterIssuer,
                                   registerIssuerParams(did, "KYC"))
        IN  /\ out.accepted => Cardinality(mempool) < MaxPending
            /\ mempool' = Broadcast(mempool, out, script, <<did, "KYC">>)
            /\ last' = Call("registerIssuer", <<did, "KYC">>, st, out)
            /\ UNCHANGED <<trustReg, claimReg, schemaReg, pubKeys, lastConfirmed, seen, issuing, keysBefore>>

DeactivateIssuerOfString ==
    \E did \in DIDStrings, st \in InvokeStates, ok \in BOOLEAN :
        LET out == deactivateIssuer(did, "KYC", st, ok)
            script == createScript(RotScriptHash, RootOfTrustOperation.DeactivateIssuer,
                                   deactivateIssuerParams(did, "KYC"))
        IN  /\ out.accepted => Cardinality(mempool) < MaxPending
            /\ mempool' = Broadcast(mempool, out, script, <<did, "KYC">>)
            /\ last' = Call("deactivateIssuer", <<did, "KYC">>, st, out)
            /\ UNCHANGED <<trustReg, claimReg, schemaReg, pubKeys, lastConfirmed, seen, issuing, keysBefore>>

NextKey ==
    \/ IsTrustedOfString
    \/ RegisterIssuerOfString
    \/ DeactivateIssuerOfString
    \/ ConfirmRoT

SpecKey == Init /\ [][NextKey]_vars

\* The characters of a string from the tenth on.
FromTenth(did) ==
    [i \in 1..(IF Len(did) > 9 THEN Len(did) - 9 ELSE 0) |-> did[i + 9]]

=============================================================================
